---- MODULE Spec2Model ----
(***************************************************************************)
(* Model of kyclark/lebauer-testing: finder.py (WordFinder) and the        *)
(* Greeter exercised by hello_test.py.  Strings are sequences of           *)
(* one-character strings, so that cleaning, splitting and formatting are   *)
(* computed character by character as the Python code computes them.       *)
(***************************************************************************)
EXTENDS Integers, Sequences, FiniteSets, TLC

VARIABLES pc, argv, disk, fhs, length, words, stdout, stderr, rc, ncalls

vars == <<pc, argv, disk, fhs, length, words, stdout, stderr, rc, ncalls>>

(***************************************************************************)
(* Bounds of the model.                                                    *)
(***************************************************************************)
MaxChars == 3      \* total number of characters over all enumerated sources
MaxFiles == 2      \* number of FILE arguments / sources
MaxLen == 3        \* largest --len value tried
NegLens == 2       \* most negative --len value tried is -NegLens
MaxCalls == 2      \* calls of find_words on the same stream objects
MaxName == 2       \* characters of an enumerated --name value

(***************************************************************************)
(* Program constants.                                                      *)
(***************************************************************************)
DefaultLen == 3    \* add_argument('--len', default=3)
IndexWidth == 3    \* f'{i:3}: {w}'

(***************************************************************************)
(* Characters.                                                             *)
(***************************************************************************)
Lower == {"a", "b", "c", "d", "e", "f", "g", "h", "i", "j", "k", "l", "m",
          "n", "o", "p", "q", "r", "s", "t", "u", "v", "w", "x", "y", "z"}
Upper == {"A", "B", "C", "D", "E", "F", "G", "H", "I", "J", "K", "L", "M",
          "N", "O", "P", "Q", "R", "S", "T", "U", "V", "W", "X", "Y", "Z"}

\* The characters the pattern '[^a-zA-Z]' does NOT match.
Letters == Lower \cup Upper

\* The characters str.split() with no separator treats as whitespace.
Whitespace == {" ", "\t", "\n", "\r", "\f"}

\* The characters enumerated file contents are made of: a lower-case and an
\* upper-case letter, a punctuation mark, a blank and a line end.
Alphabet == {"a", "Z", ".", " ", "\n"}

\* an option that is not on the command line
Absent == <<>>

\* a path open() raises FileNotFoundError for
NoSuchFile == [exists |-> FALSE, text |-> <<>>]

\* a readable file holding text
File(text) == [exists |-> TRUE, text |-> text]

\* The text of finder_unit_test.py.
Fox == <<"T", "h", "e", " ", "q", "u", "i", "c", "k", " ", "b", "r", "o", "w", "n", " ", "f", "o", "x", " ", "j", "u", "m", "p", "s", " ", "o", "v", "e", "r", " ", "t", "h", "e", " ", "l", "a", "z", "y", " ", "d", "o", "g", ".">>

\* Two sources with several lines, a tab, punctuation inside and beside
\* words, punctuation-only tokens and a word that occurs in both.
Pair == << <<"Z", "a", ".", " ", ".", ".", "\n", "a">>,
           <<"\t", "Z", "a", " ", "a", "Z", " ", "!", "\n">> >>

\* A text with more than nine one-letter words, for two-digit indexes.
Long == <<"a", " ", "b", " ", "c", " ", "d", " ", "e", " ", "f", " ", "g", " ", "h", " ", "i", " ", "j", " ", "k">>

(***************************************************************************)
(* Formatting of integers, as Python's str(int) and format spec '3'.       *)
(***************************************************************************)
DigitChar(d) == <<"0", "1", "2", "3", "4", "5", "6", "7", "8", "9">>[d + 1]

RECURSIVE Digits(_)
Digits(n) ==
    IF n < 10 THEN <<DigitChar(n)>>
    ELSE Digits(n \div 10) \o <<DigitChar(n % 10)>>

\* f'{n}' for an int n
IntStr(n) == IF n < 0 THEN <<"-">> \o Digits(-n) ELSE Digits(n)

RECURSIVE PadLeft(_, _)
PadLeft(s, w) == IF Len(s) >= w THEN s ELSE PadLeft(<<" ">> \o s, w)

\* f'{i:3}' : right-aligned in a field of at least IndexWidth characters
FormatIndex(i) == PadLeft(IntStr(i), IndexWidth)

\* f'{i:3}: {w}'
FormatLine(i, w) == FormatIndex(i) \o <<":", " ">> \o w

RECURSIVE Join(_, _)
\* sep.join(lines)
Join(lines, sep) ==
    IF lines = <<>> THEN <<>>
    ELSE IF Len(lines) = 1 THEN lines[1]
    ELSE lines[1] \o sep \o Join(Tail(lines), sep)

(***************************************************************************)
(* find_words and the pieces it is built of.                               *)
(***************************************************************************)
\* clean = partial(re.sub, '[^a-zA-Z]', '')
clean(word) == SelectSeq(word, LAMBDA c : c \in Letters)

\* faulty variant: a length bound instead of an exact length
AcceptAtMost(word, word_length) == Len(word) <= word_length

\* accept = lambda word: len(word) == word_length
accept(word, word_length) == Len(word) = word_length

RECURSIVE SplitFrom(_, _, _)
SplitFrom(s, i, cur) ==
    IF i > Len(s) THEN (IF cur = <<>> THEN <<>> ELSE <<cur>>)
    ELSE IF s[i] \in Whitespace
         THEN (IF cur = <<>> THEN <<>> ELSE <<cur>>) \o SplitFrom(s, i + 1, <<>>)
         ELSE SplitFrom(s, i + 1, Append(cur, s[i]))

\* line.split(): the maximal runs of non-whitespace characters, in order
split(line) == SplitFrom(line, 1, <<>>)

RECURSIVE LinesFrom(_, _, _)
LinesFrom(s, i, cur) ==
    IF i > Len(s) THEN (IF cur = <<>> THEN <<>> ELSE <<cur>>)
    ELSE IF s[i] = "\n"
         THEN <<Append(cur, "\n")>> \o LinesFrom(s, i + 1, <<>>)
         ELSE LinesFrom(s, i + 1, Append(cur, s[i]))

\* 'for line in fh': the lines from the stream's position to its end, each
\* keeping its line end
ReadLines(fh) == LinesFrom(fh.buf, fh.pos + 1, <<>>)

\* faulty variant: the stream is rewound after the loop
ExhaustRewinds(fh) == [fh EXCEPT !.pos = 0]

\* the stream after 'for line in fh' ran to completion
Exhaust(fh) == [fh EXCEPT !.pos = Len(fh.buf)]

RECURSIVE MapClean(_)
\* map(clean, tokens)
MapClean(tokens) ==
    IF tokens = <<>> THEN <<>>
    ELSE <<clean(Head(tokens))>> \o MapClean(Tail(tokens))

\* filter(accept, ws)
FilterAccept(ws, word_length) == SelectSeq(ws, LAMBDA w : accept(w, word_length))

RECURSIVE ExtendLinesPrepend(_, _, _)
\* faulty variant: the matches of a line are put in front of the earlier ones
ExtendLinesPrepend(acc, lines, word_length) ==
    IF lines = <<>> THEN acc
    ELSE ExtendLinesPrepend(FilterAccept(MapClean(split(Head(lines))), word_length) \o acc,
                            Tail(lines), word_length)

RECURSIVE ExtendLines(_, _, _)
\* the inner loop: words.extend(filter(accept, map(clean, line.split())))
ExtendLines(acc, lines, word_length) ==
    IF lines = <<>> THEN acc
    ELSE ExtendLines(acc \o FilterAccept(MapClean(split(Head(lines))), word_length),
                     Tail(lines), word_length)

RECURSIVE ForEachFh(_, _, _)
\* the outer loop: for fh in fhs
ForEachFh(acc, hs, word_length) ==
    IF hs = <<>> THEN acc
    ELSE ForEachFh(ExtendLines(acc, ReadLines(Head(hs)), word_length),
                   Tail(hs), word_length)

\* the value find_words returns
find_words(word_length, hs) == ForEachFh(<<>>, hs, word_length)

\* its effect on the streams it was given
Consumed(hs) == [i \in 1..Len(hs) |-> Exhaust(hs[i])]

(***************************************************************************)
(* Inputs: command lines and file contents.                                *)
(***************************************************************************)
Texts(k) == UNION {[1..j -> Alphabet] : j \in 0..k}

RECURSIVE Splits(_, _)
\* the ways of cutting text t into n consecutive pieces
Splits(t, n) ==
    IF n = 1 THEN {<<t>>}
    ELSE UNION {{<<SubSeq(t, 1, c)>> \o r : r \in Splits(SubSeq(t, c + 1, Len(t)), n - 1)}
                : c \in 0..Len(t)}

\* the contents of the sources of one run, in argument order
SourceTexts ==
    UNION {Splits(t, n) : t \in Texts(MaxChars), n \in 1..MaxFiles}
    \cup {<<Fox>>, <<Long>>, Pair}

\* the i-th FILE argument
PathName(i) == <<"f", DigitChar(i)>>

\* the -l/--len option: absent, or one integer
LenArgs == {Absent} \cup {<<v>> : v \in (0 - NegLens)..MaxLen}

\* io.StringIO(text), or the stream open(path, 'rt') returns
Stream(name, text) == [name |-> name, buf |-> text, pos |-> 0, closed |-> FALSE]

(***************************************************************************)
(* Messages.                                                               *)
(***************************************************************************)
\* argparse's usage line for this parser
Usage == <<"u", "s", "a", "g", "e", ":", " ", "f", "i", "n", "d", "e", "r", ".", "p", "y", " ", "[", "-", "h", "]", " ", "[", "-", "l", " ", "i", "n", "t", "]", " ", "F", "I", "L", "E", " ", "[", "F", "I", "L", "E", " ", ".", ".", ".", "]", "\n">>

ErrPrefix == <<"f", "i", "n", "d", "e", "r", ".", "p", "y", ":", " ", "e", "r", "r", "o", "r", ":", " ">>

\* what parser.error(message) writes to stderr before exiting with status 2
ParserError(message) == Usage \o ErrPrefix \o message \o <<"\n">>

\* f'--len "{args.len}" must be > 0'
LenMessage(len) ==
    <<"-", "-", "l", "e", "n", " ", "\"">> \o IntStr(len)
    \o <<"\"", " ", "m", "u", "s", "t", " ", "b", "e", " ", ">", " ", "0">>

\* argparse.FileType's message when open(path) raises OSError
OpenMessage(path) ==
    <<"a", "r", "g", "u", "m", "e", "n", "t", " ", "F", "I", "L", "E", ":", " ", "c", "a", "n", "'", "t", " ", "o", "p", "e", "n", " ", "'">>
    \o path
    \o <<"'", ":", " ", "[", "E", "r", "r", "n", "o", " ", "2", "]", " ", "N", "o", " ", "s", "u", "c", "h", " ", "f", "i", "l", "e", " ", "o", "r", " ", "d", "i", "r", "e", "c", "t", "o", "r", "y", ":", " ", "'">>
    \o path \o <<"'">>

\* f'Found no words of length {args.length}!'
NoWordsMessage(len) ==
    <<"F", "o", "u", "n", "d", " ", "n", "o", " ", "w", "o", "r", "d", "s", " ", "o", "f", " ", "l", "e", "n", "g", "t", "h", " ">>
    \o IntStr(len) \o <<"!">>

\* faulty variant: enumerate(words) without the start index 1
ListingFromZero(ws) == [i \in 1..Len(ws) |-> FormatLine(i - 1, ws[i])]

\* starmap(lambda i, w: f'{i:3}: {w}', enumerate(words, 1))
Listing(ws) == [i \in 1..Len(ws) |-> FormatLine(i, ws[i])]

(***************************************************************************)
(* WordFinder as a command: finder.py [-l int] FILE [FILE ...]             *)
(***************************************************************************)
Init ==
    \E texts \in SourceTexts, missing \in SUBSET (1..MaxFiles), len \in LenArgs :
        /\ missing \subseteq 1..Len(texts)
        /\ \A i \in missing : texts[i] = <<>>
        /\ argv = [len |-> len, file |-> [i \in 1..Len(texts) |-> PathName(i)]]
        /\ disk = [i \in 1..Len(texts) |->
                      IF i \in missing THEN NoSuchFile ELSE File(texts[i])]
        /\ pc = "start"
        /\ fhs = <<>>
        /\ length = -1
        /\ words = <<>>
        /\ stdout = <<>>
        /\ stderr = <<>>
        /\ rc = -1
        /\ ncalls = 0

\* the value of args.len after parse_args
ParsedLen == IF argv.len = Absent THEN DefaultLen ELSE argv.len[1]

\* faulty variant: a path that cannot be opened is read as an empty file
UnopenableIgnored == {}

\* the FILE arguments argparse.FileType('rt') cannot open
Unopenable == {i \in 1..Len(argv.file) : disk[i] = NoSuchFile}

\* the streams FileType has opened for arguments 1..n
Opened(n) == [i \in 1..n |-> Stream(argv.file[i], disk[i].text)]

\* get_args, when parse_args fails on a FILE argument: the arguments before
\* it have been opened, and parser.error ends the process
get_args_bad_file ==
    /\ pc = "start"
    /\ Unopenable # {}
    /\ LET bad == CHOOSE i \in Unopenable : \A j \in Unopenable : i <= j
       IN  /\ fhs' = Opened(bad - 1)
           /\ stderr' = ParserError(OpenMessage(argv.file[bad]))
    /\ rc' = 2
    /\ pc' = "exit"
    /\ UNCHANGED <<argv, disk, length, words, stdout, ncalls>>

\* faulty variant: no validation of the length
LenRejectedNever(len) == FALSE

\* faulty variant: the boundary the error message words, 'must be > 0'
LenRejectedNonPositive(len) == len <= 0

\* the validation of get_args: 'if args.len < 0'
LenRejected(len) == len < 0

\* get_args, when parse_args succeeds and args.len < 0
get_args_bad_len ==
    /\ pc = "start"
    /\ Unopenable = {}
    /\ LenRejected(ParsedLen)
    /\ fhs' = Opened(Len(argv.file))
    /\ stderr' = ParserError(LenMessage(ParsedLen))
    /\ rc' = 2
    /\ pc' = "exit"
    /\ UNCHANGED <<argv, disk, length, words, stdout, ncalls>>

\* get_args returning Args(args.file, args.len)
get_args_ok ==
    /\ pc = "start"
    /\ Unopenable = {}
    /\ ~LenRejected(ParsedLen)
    /\ fhs' = Opened(Len(argv.file))
    /\ length' = ParsedLen
    /\ pc' = "main"
    /\ UNCHANGED <<argv, disk, words, stdout, stderr, rc, ncalls>>

\* faulty variant: the no-results message is printed and the process exits normally
MainPrintsNoWords ==
    /\ pc = "main"
    /\ words' = find_words(length, fhs)
    /\ fhs' = Consumed(fhs)
    /\ ncalls' = ncalls + 1
    /\ IF words' # <<>>
       THEN stdout' = Join(Listing(words'), <<"\n">>) \o <<"\n">>
       ELSE stdout' = NoWordsMessage(length) \o <<"\n">>
    /\ rc' = 0
    /\ pc' = "exit"
    /\ UNCHANGED <<argv, disk, length, stderr>>

\* main after get_args: the call of find_words, then the listing or sys.exit
main ==
    /\ pc = "main"
    /\ words' = find_words(length, fhs)
    /\ fhs' = Consumed(fhs)
    /\ ncalls' = ncalls + 1
    /\ IF words' # <<>>
       THEN /\ stdout' = Join(Listing(words'), <<"\n">>) \o <<"\n">>
            /\ rc' = 0
            /\ UNCHANGED stderr
       ELSE /\ stderr' = NoWordsMessage(length) \o <<"\n">>
            /\ rc' = 1
            /\ UNCHANGED stdout
    /\ pc' = "exit"
    /\ UNCHANGED <<argv, disk, length>>

Next == get_args_bad_file \/ get_args_bad_len \/ get_args_ok \/ main

Spec == Init /\ [][Next]_vars

(***************************************************************************)
(* Vocabulary of the properties.  These definitions restate what the       *)
(* specification says, independently of the operators above.               *)
(***************************************************************************)
StartsWith(s, pre) == Len(s) >= Len(pre) /\ SubSeq(s, 1, Len(pre)) = pre

Contains(s, sub) ==
    \E i \in 0..(Len(s) - Len(sub)) : SubSeq(s, i + 1, i + Len(sub)) = sub

AsciiLetter(c) ==
    \E i \in 1..26 :
        \/ c = <<"a", "b", "c", "d", "e", "f", "g", "h", "i", "j", "k", "l", "m", "n", "o", "p", "q", "r", "s", "t", "u", "v", "w", "x", "y", "z">>[i]
        \/ c = <<"A", "B", "C", "D", "E", "F", "G", "H", "I", "J", "K", "L", "M", "N", "O", "P", "Q", "R", "S", "T", "U", "V", "W", "X", "Y", "Z">>[i]

Blank(c) == c \in {" ", "\t", "\n", "\r", "\f"}

\* the positions of text t where a whitespace-delimited token starts
TokenStarts(t) ==
    {i \in 1..Len(t) : ~Blank(t[i]) /\ (i = 1 \/ Blank(t[i - 1]))}

\* the last position of the token that starts at i
TokenEnd(t, i) ==
    CHOOSE j \in i..Len(t) :
        /\ \A k \in i..j : ~Blank(t[k])
        /\ (j = Len(t) \/ Blank(t[j + 1]))

RECURSIVE TokensAt(_, _)
TokensAt(t, starts) ==
    IF starts = {} THEN <<>>
    ELSE LET i == CHOOSE x \in starts : \A y \in starts : x <= y
         IN  <<SubSeq(t, i, TokenEnd(t, i))>> \o TokensAt(t, starts \ {i})

\* the whitespace-delimited tokens of a whole text, in order
RefTokens(t) == TokensAt(t, TokenStarts(t))

RECURSIVE RefClean(_)
\* a token with every character that is not an ASCII letter removed
RefClean(w) ==
    IF w = <<>> THEN <<>>
    ELSE (IF AsciiLetter(Head(w)) THEN <<Head(w)>> ELSE <<>>) \o RefClean(Tail(w))

RECURSIVE RefMatches(_, _)
\* the cleaned tokens of length L among toks, in order, one entry per token
RefMatches(L, toks) ==
    IF toks = <<>> THEN <<>>
    ELSE LET c == RefClean(Head(toks))
         IN  (IF Len(c) = L THEN <<c>> ELSE <<>>) \o RefMatches(L, Tail(toks))

RECURSIVE RefWords(_, _)
\* the reference result for the texts of the sources, in source order
RefWords(L, texts) ==
    IF texts = <<>> THEN <<>>
    ELSE RefMatches(L, RefTokens(Head(texts))) \o RefWords(L, Tail(texts))

\* the texts of the FILE arguments of this run
DiskTexts == [i \in 1..Len(disk) |-> disk[i].text]

\* every FILE argument of this run can be opened
AllReadable == \A i \in 1..Len(disk) : disk[i].exists

\* a fresh stream over each text
Fresh(texts) == [i \in 1..Len(texts) |-> Stream(<<>>, texts[i])]

\* the command line of this run is valid: readable files, no negative --len
ValidArgs ==
    /\ AllReadable
    /\ (argv.len = Absent \/ argv.len[1] >= 0)

Finished == pc = "exit"

\* the first FILE argument that cannot be opened
FirstMissing == CHOOSE i \in 1..Len(disk) :
                    /\ ~disk[i].exists
                    /\ \A j \in 1..(i - 1) : disk[j].exists

\* the tokens that hold no ASCII letter
Letterless(toks) == SelectSeq(toks, LAMBDA w : \A k \in 1..Len(w) : ~AsciiLetter(w[k]))

RECURSIVE AllTokens(_)
\* the tokens of all the texts, in source order
AllTokens(texts) ==
    IF texts = <<>> THEN <<>> ELSE RefTokens(Head(texts)) \o AllTokens(Tail(texts))

RECURSIVE PlainLines(_, _)
\* the lines "k: word_k" for k, k + 1, ...
PlainLines(ws, k) ==
    IF k > Len(ws) THEN <<>>
    ELSE IntStr(k) \o <<":", " ">> \o ws[k] \o <<"\n">> \o PlainLines(ws, k + 1)

\* digits d right-aligned in a field of width 3: blanks on the left
RightAligned(d) ==
    IF Len(d) >= 3 THEN d ELSE [j \in 1..(3 - Len(d)) |-> " "] \o d

RECURSIVE PaddedLines(_, _)
\* the lines with the index right-aligned in width 3, for k, k + 1, ...
PaddedLines(ws, k) ==
    IF k > Len(ws) THEN <<>>
    ELSE RightAligned(IntStr(k)) \o <<":", " ">> \o ws[k] \o <<"\n">>
         \o PaddedLines(ws, k + 1)

(***************************************************************************)
(* C1: every string find_words returns has length exactly the target       *)
(* length and consists of ASCII letters only.                              *)
(***************************************************************************)
C1_ExactLengthLettersOnly ==
    \A i \in 1..Len(words) :
        /\ Len(words[i]) = length
        /\ \A k \in 1..Len(words[i]) : AsciiLetter(words[i][k])

\* the example of the unit test: "dog." is cleaned to "dog" and kept
C1_Witness ==
    /\ Finished
    /\ DiskTexts = <<Fox>>
    /\ words = <<<<"T", "h", "e">>, <<"f", "o", "x">>, <<"t", "h", "e">>, <<"d", "o", "g">>>>

(***************************************************************************)
(* C2: the result of find_words is the reference sequence: sources in      *)
(* order, tokens in order, each cleaned and kept iff its cleaned length is *)
(* the target, one entry per matching token; and the result for A followed *)
(* by B is the result for A followed by the result for B.                  *)
(***************************************************************************)
C2_ReferenceOrder ==
    (Finished /\ ncalls = 1) =>
        /\ words = RefWords(length, DiskTexts)
        /\ \A k \in 0..Len(disk) :
              words = find_words(length, Fresh(SubSeq(DiskTexts, 1, k)))
                      \o find_words(length, Fresh(SubSeq(DiskTexts, k + 1, Len(disk))))

\* two sources that both contribute: "Za." of the first, then "Za" (again)
\* and "aZ" of the second
C2_Witness ==
    /\ Finished
    /\ DiskTexts = Pair
    /\ words = <<<<"Z", "a">>, <<"Z", "a">>, <<"a", "Z">>>>

(***************************************************************************)
(* C3 as stated: with valid arguments and n >= 1 matches the process exits *)
(* with code 0 and prints exactly n lines, line k being "k: word_k".       *)
(***************************************************************************)
C3_Original ==
    (Finished /\ ValidArgs /\ RefWords(ParsedLen, DiskTexts) # <<>>) =>
        /\ rc = 0
        /\ stdout = PlainLines(RefWords(ParsedLen, DiskTexts), 1)
        /\ stderr = <<>>

(***************************************************************************)
(* C3 amended: line k is the index k right-aligned in a field of width 3   *)
(* (padded on the left with blanks), then ": ", then word_k.               *)
(***************************************************************************)
C3_PaddedListing ==
    (Finished /\ ValidArgs /\ RefWords(ParsedLen, DiskTexts) # <<>>) =>
        /\ rc = 0
        /\ stdout = PaddedLines(RefWords(ParsedLen, DiskTexts), 1)
        /\ stderr = <<>>

\* eleven matches: one-digit and two-digit indexes
C3_Witness ==
    /\ Finished
    /\ rc = 0
    /\ Len(words) = 11
    /\ Contains(stdout, <<"\n", " ", " ", "9", ":", " ", "i", "\n", " ", "1", "0", ":", " ", "j", "\n">>)

(***************************************************************************)
(* C4: with valid arguments and zero matches the process exits non-zero    *)
(* and its whole output is "Found no words of length L!"; and with valid   *)
(* arguments the exit code is non-zero only if there were zero matches.    *)
(***************************************************************************)
C4_NoResults ==
    (Finished /\ ValidArgs) =>
        /\ RefWords(ParsedLen, DiskTexts) = <<>> =>
              /\ rc # 0
              /\ stdout = <<>>
              /\ stderr = <<"F", "o", "u", "n", "d", " ", "n", "o", " ", "w", "o", "r", "d", "s", " ", "o", "f", " ", "l", "e", "n", "g", "t", "h", " ">> \o IntStr(ParsedLen) \o <<"!", "\n">>
        /\ rc # 0 => RefWords(ParsedLen, DiskTexts) = <<>>

\* --len 2 on "a Z": no word of length 2, exit status 1
C4_Witness ==
    /\ Finished
    /\ ValidArgs
    /\ argv.len = <<2>>
    /\ DiskTexts = <<<<"a", " ", "Z">>>>
    /\ rc = 1

(***************************************************************************)
(* C5: a negative length with readable files ends the process with a       *)
(* non-zero code and a usage-prefixed error containing                     *)
(* --len "v" must be > 0; find_words is not called and neither a listing   *)
(* nor the no-results message is written.                                  *)
(***************************************************************************)
C5_NegativeLength ==
    (Finished /\ AllReadable /\ argv.len # Absent /\ argv.len[1] < 0) =>
        /\ rc # 0
        /\ StartsWith(stderr, <<"u", "s", "a", "g", "e">>)
        /\ Contains(stderr, <<"-", "-", "l", "e", "n", " ", "\"">> \o <<"-">> \o IntStr(0 - argv.len[1]) \o <<"\"", " ", "m", "u", "s", "t", " ", "b", "e", " ", ">", " ", "0">>)
        /\ ncalls = 0
        /\ words = <<>>
        /\ stdout = <<>>
        /\ ~Contains(stderr, <<"F", "o", "u", "n", "d", " ", "n", "o", " ", "w", "o", "r", "d", "s", " ", "o", "f", " ", "l", "e", "n", "g", "t", "h", " ">>)

\* --len -2 with a file that holds words
C5_Witness ==
    /\ Finished
    /\ argv.len = <<0 - 2>>
    /\ DiskTexts = <<Fox>>

(***************************************************************************)
(* C6: if a FILE argument cannot be opened the process ends with a         *)
(* non-zero code and a usage-style error naming that path, before          *)
(* find_words is called; nothing is listed, even when other paths are      *)
(* readable and hold matches.                                              *)
(***************************************************************************)
C6_BadFile ==
    (Finished /\ ~AllReadable) =>
        /\ rc # 0
        /\ StartsWith(stderr, <<"u", "s", "a", "g", "e">>)
        /\ Contains(stderr, <<"N", "o", " ", "s", "u", "c", "h", " ", "f", "i", "l", "e", " ", "o", "r", " ", "d", "i", "r", "e", "c", "t", "o", "r", "y", ":", " ">> \o <<"'">> \o argv.file[FirstMissing] \o <<"'">>)
        /\ ncalls = 0
        /\ words = <<>>
        /\ stdout = <<>>
        /\ ~Contains(stderr, <<"F", "o", "u", "n", "d", " ", "n", "o", " ", "w", "o", "r", "d", "s", " ", "o", "f", " ", "l", "e", "n", "g", "t", "h", " ">>)

\* the first path is readable and holds a match, the second is missing
C6_Witness ==
    /\ Finished
    /\ Len(disk) = 2
    /\ disk[1] = File(<<"a", " ", "Z">>)
    /\ ~disk[2].exists
    /\ argv.len = <<1>>

(***************************************************************************)
(* C7: in every terminal state of a WordFinder run, every source that was  *)
(* opened during the run has been closed.                                  *)
(***************************************************************************)
C7_AllClosedAtExit ==
    Finished => \A i \in 1..Len(fhs) : fhs[i].closed

(***************************************************************************)
(* C8: the validation boundary is exactly length < 0.  Length 0 is         *)
(* accepted and passed to find_words, whose result is one empty string per *)
(* token without an ASCII letter and nothing else; for L >= 1 the result   *)
(* holds no empty string; every negative length is rejected.               *)
(***************************************************************************)
C8_ZeroBoundary ==
    (Finished /\ AllReadable /\ argv.len # Absent) =>
        /\ argv.len[1] = 0 =>
              /\ ncalls = 1
              /\ length = 0
              /\ words = [k \in 1..Len(Letterless(AllTokens(DiskTexts))) |-> <<>>]
        /\ argv.len[1] >= 1 => (ncalls = 1 /\ \A i \in 1..Len(words) : words[i] # <<>>)
        /\ argv.len[1] < 0 => ncalls = 0

\* --len 0 on two sources with the letterless tokens ".." and "!" among
\* six tokens: two empty strings
C8_Witness ==
    /\ Finished
    /\ argv.len = <<0>>
    /\ DiskTexts = Pair
    /\ words = <<<<>>, <<>>>>

(***************************************************************************)
(* find_words as a library function: the harness of finder_unit_test.py,   *)
(* which builds StringIO streams and calls find_words on them.             *)
(***************************************************************************)
\* text = lambda: [io.StringIO(...)] : fresh streams over the texts
InitUnit ==
    \E texts \in SourceTexts :
        /\ disk = [i \in 1..Len(texts) |-> File(texts[i])]
        /\ fhs = [i \in 1..Len(texts) |-> Stream(<<>>, texts[i])]
        /\ argv = [len |-> Absent, file |-> <<>>]
        /\ pc = "unit"
        /\ length = -1
        /\ words = <<>>
        /\ stdout = <<>>
        /\ stderr = <<>>
        /\ rc = -1
        /\ ncalls = 0

\* find_words(L, fhs) on the stream objects the harness holds
UnitCall ==
    /\ pc = "unit"
    /\ ncalls < MaxCalls
    /\ \E L \in 0..MaxLen :
          /\ length' = L
          /\ words' = find_words(L, fhs)
    /\ fhs' = Consumed(fhs)
    /\ ncalls' = ncalls + 1
    /\ UNCHANGED <<pc, argv, disk, stdout, stderr, rc>>

\* text() once more: new streams over the same texts
UnitFresh ==
    /\ pc = "unit"
    /\ ncalls > 0
    /\ fhs' = [i \in 1..Len(disk) |-> Stream(<<>>, disk[i].text)]
    /\ ncalls' = 0
    /\ UNCHANGED <<pc, argv, disk, length, words, stdout, stderr, rc>>

NextUnit == UnitCall \/ UnitFresh

SpecUnit == InitUnit /\ [][NextUnit]_vars

(***************************************************************************)
(* C10: find_words leaves every source at end-of-stream, so every call     *)
(* after the first on the same stream objects returns the empty list; the  *)
(* first call on fresh streams returns the result for the whole text.      *)
(***************************************************************************)
C10_Consumed ==
    /\ ncalls >= 1 => \A i \in 1..Len(fhs) : fhs[i].pos = Len(disk[i].text)
    /\ ncalls >= 2 => words = <<>>
    /\ ncalls = 1 => words = RefWords(length, DiskTexts)

\* a second call on the consumed streams of the unit test's text
C10_Witness ==
    /\ ncalls = 2
    /\ DiskTexts = <<Fox>>
    /\ length = 3
    /\ words = <<>>

(***************************************************************************)
(* The Greeter: hello.py [-n NAME], as hello_test.py runs it.              *)
(***************************************************************************)
\* the characters enumerated names are made of
NameAlphabet == {"a", "b", "Y", "Z", "0", " ", "!"}

Universe == <<"U", "n", "i", "v", "e", "r", "s", "e">>

Multiverse == <<"M", "u", "l", "t", "i", "v", "e", "r", "s", "e">>

\* the -n/--name option: absent, or one string
NameArgs ==
    {Absent}
    \cup {<<n>> : n \in UNION {[1..j -> NameAlphabet] : j \in 0..MaxName}}
    \cup {<<Universe>>, <<Multiverse>>}

\* the default of the name option
DefaultName == <<"W", "o", "r", "l", "d">>

\* faulty variant: the greeting without its exclamation mark
GreetingPlain(name) == <<"H", "e", "l", "l", "o", ",", " ">> \o name

\* the line the Greeter prints for a name
Greeting(name) == <<"H", "e", "l", "l", "o", ",", " ">> \o name \o <<"!">>

InitHello ==
    \E name \in NameArgs :
        /\ argv = [name |-> name]
        /\ pc = "hello"
        /\ disk = <<>>
        /\ fhs = <<>>
        /\ length = -1
        /\ words = <<>>
        /\ stdout = <<>>
        /\ stderr = <<>>
        /\ rc = -1
        /\ ncalls = 0

\* the Greeter's main: print the greeting, return
Greet ==
    /\ pc = "hello"
    /\ LET name == IF argv.name = Absent THEN DefaultName ELSE argv.name[1]
       IN  stdout' = Greeting(name) \o <<"\n">>
    /\ rc' = 0
    /\ pc' = "exit"
    /\ UNCHANGED <<argv, disk, fhs, length, words, stderr, ncalls>>

NextHello == Greet

SpecHello == InitHello /\ [][NextHello]_vars

(***************************************************************************)
(* C9: the Greeter exits with code 0 and prints exactly the line           *)
(* "Hello, <name>!", <name> being the value of -n/--name, or "World" when  *)
(* no name is given.                                                       *)
(***************************************************************************)
C9_Greeting ==
    Finished =>
        /\ rc = 0
        /\ stderr = <<>>
        /\ argv.name = Absent =>
              stdout = <<"H", "e", "l", "l", "o", ",", " ", "W", "o", "r", "l", "d", "!", "\n">>
        /\ argv.name # Absent =>
              /\ Len(stdout) = Len(argv.name[1]) + 9
              /\ SubSeq(stdout, 1, 7) = <<"H", "e", "l", "l", "o", ",", " ">>
              /\ SubSeq(stdout, 8, Len(stdout) - 2) = argv.name[1]
              /\ SubSeq(stdout, Len(stdout) - 1, Len(stdout)) = <<"!", "\n">>

\* the run of test_input with the name Universe
C9_Witness ==
    /\ Finished
    /\ argv.name = <<Universe>>
    /\ stdout = <<"H", "e", "l", "l", "o", ",", " ", "U", "n", "i", "v", "e", "r", "s", "e", "!", "\n">>

====
